---- MODULE Spec2Model ----
(***************************************************************************)
(* Football_Backend: a Lambda-style request router (handler.py) in front   *)
(* of three batch operations: fetch-and-persist of Premier League          *)
(* standings (src/step1_getcsv.py), clean-and-render                       *)
(* (src/step2_summarize.py) and a KPI query over the stored dataset        *)
(* (src/step3_query_kpi_from_csv.py).                                      *)
(*                                                                         *)
(* One handler invocation is one step.  The durable state is the stored    *)
(* CSV (a local file, or an S3 object when AWS_LAMBDA_FUNCTION_NAME is     *)
(* set); the remaining variables record what the last invocation was       *)
(* given and what it did.                                                  *)
(***************************************************************************)
EXTENDS Integers, Sequences, FiniteSets, TLC

VARIABLES
    env,          \* "aws" | "local": is_aws_environment(), fixed per process
    localFile,    \* data/premier_league_stats.csv on the local disk
    s3Object,     \* s3://zsbtest/football/data/premier_league_stats.csv
    event,        \* the event of the last invocation
    upstream,     \* the API response to each season request of the last fetch
    io,           \* storage outcomes the last invocation met
    before,       \* the fetch pipeline's stored file when the invocation began
    wasRerun,     \* the invocation repeated the previous fetch, same upstream data
    season_data,  \* get_league_standings' return value per season requested
    all_data,     \* the records the fetch driver accumulated
    calls,        \* the functions the invocation called, in order
    judged,       \* judge_incremental's return value ("not_called" if not run)
    saved,        \* save_to_csv's return value ("not_called" if not run)
    charts,       \* the chart files the invocation persisted, in order
    loaded,       \* the last call of read_csv_data, see LoadCall
    cleaning,     \* the last call of validate_years or clean_data, see CleanCall
    plotting,     \* the last call of draw_plots, see PlotCall
    response,     \* the response handler returned
    raised,       \* the exception that escaped handler ("" if it returned)
    logged,       \* the error text handler printed ("" if none)
    runs          \* fetch invocations in progress at the same time, see NoRuns

vars == <<env, localFile, s3Object, event, upstream, io, before, wasRerun,
          season_data, all_data, calls, judged, saved, charts, loaded,
          cleaning, plotting, response, raised, logged, runs>>

(***************************************************************************)
(* Bounds of the model.                                                    *)
(***************************************************************************)
\* The driver's season list is cut to its first NumSeasons seasons.
NumSeasons == 2
\* Statistics in API tables and stored cells range over 0..MaxStat.
MaxStat == 2
\* The datasets the KPI query is run on hold up to MaxRows records.
MaxRows == 2
\* The standings tables get_league_standings is run on hold up to MaxTable rows.
MaxTable == 2
\* The year columns validate_years is run on hold up to MaxYears cells.
MaxYears == 2

(***************************************************************************)
(* Configuration constants and small helpers.                              *)
(***************************************************************************)
STATS_COLUMNS == <<"won", "draw", "lost", "goalsFor", "goalsAgainst">>

FirstSeason == 2020

\* years = [2020, 2021, 2022, 2023, 2024], cut to NumSeasons entries
years == [i \in 1..NumSeasons |-> FirstSeason + (i - 1)]

Range(s) == {s[i] : i \in 1..Len(s)}

\* A missing value (JSON null / pandas NaN) in a numeric cell.
NaN == 0 - 1

\* The column order of pd.DataFrame(all_data): the key order of team_data.
BaseColumns == <<"year", "startDate", "endDate", "teamName">> \o STATS_COLUMNS

NumericColumns == {"year"} \cup Range(STATS_COLUMNS)

\* The numbers a cell can hold.
Numbers == (0..MaxStat) \cup {FirstSeason + k : k \in (0 - 2)..(NumSeasons + 1)}

RECURSIVE Concat(_)
Concat(ss) == IF ss = <<>> THEN <<>> ELSE Head(ss) \o Concat(Tail(ss))

RECURSIVE Filter(_, _)
\* the subsequence of s whose indices satisfy keep, in order
Filter(s, keep) ==
    IF s = <<>> THEN <<>>
    ELSE LET rest == Filter(Tail(s), [i \in 1..(Len(s) - 1) |-> keep[i + 1]])
         IN  IF keep[1] THEN <<Head(s)>> \o rest ELSE rest

(***************************************************************************)
(* The stored CSV: to_csv writes every cell as text, read_csv parses it    *)
(* back (an empty cell is a missing value).                                *)
(***************************************************************************)
Absent == [exists |-> FALSE, header |-> <<>>, lines |-> <<>>]

\* halves: the float64 columns imputation produced, whose cells count halves
DataFrame(columns, rows) ==
    [isNone |-> FALSE, columns |-> columns, rows |-> rows, halves |-> {}]

\* a function returning None where a DataFrame is expected
NoneDf == [isNone |-> TRUE, columns |-> <<>>, rows |-> <<>>, halves |-> {}]

CellText(c, v) ==
    IF c \in NumericColumns
    THEN IF v = NaN THEN "" ELSE ToString(v)
    ELSE v

\* the number a cell's digits spell
NumberOfText ==
    [t \in {ToString(n) : n \in Numbers} |-> CHOOSE n \in Numbers : ToString(n) = t]

ParseCell(c, t) ==
    IF c \in NumericColumns
    THEN IF t = "" THEN NaN ELSE NumberOfText[t]
    ELSE t

to_csv(df) ==
    [exists |-> TRUE,
     header |-> df.columns,
     lines  |-> [i \in 1..Len(df.rows) |->
                    [j \in 1..Len(df.columns) |->
                        CellText(df.columns[j], df.rows[i][df.columns[j]])]]]

read_csv(file) ==
    DataFrame(file.header,
              [i \in 1..Len(file.lines) |->
                  [c \in Range(file.header) |->
                      LET j == CHOOSE k \in 1..Len(file.header) : file.header[k] = c
                      IN  ParseCell(c, file.lines[i][j])]])

(***************************************************************************)
(* Standings Fetcher: get_league_standings(season).                        *)
(* A response is [raises, status_code, decodable, data]; data is the       *)
(* decoded JSON object, a missing key being a missing record field.        *)
(***************************************************************************)
Ret(kind, items, exc, json_called) ==
    [kind |-> kind, items |-> items, exc |-> exc, json_called |-> json_called]

HasTeamKeys(data, team) ==
    /\ "filters" \in DOMAIN data
    /\ "season" \in DOMAIN data.filters
    /\ "season" \in DOMAIN data
    /\ "startDate" \in DOMAIN data.season
    /\ "endDate" \in DOMAIN data.season
    /\ "team" \in DOMAIN team
    /\ "name" \in DOMAIN team.team
    /\ \A i \in 1..Len(STATS_COLUMNS) : STATS_COLUMNS[i] \in DOMAIN team

team_data(data, team) ==
    [c \in Range(BaseColumns) |->
        CASE c = "year"      -> data.filters.season
          [] c = "startDate" -> data.season.startDate
          [] c = "endDate"   -> data.season.endDate
          [] c = "teamName"  -> team.team.name
          [] OTHER           -> team[c]]

\* the loop over total_standings['table']: a row with a missing key is skipped
RowsOf(data, kept) == [i \in 1..Len(kept) |-> team_data(data, kept[i])]

\* teams_data with "break" for "continue": the loop ends at the first row
\* with a missing key
TeamsDataStopsAtBadRow(data, table) ==
    RowsOf(data, SubSeq(table, 1,
        CHOOSE n \in 0..Len(table) :
            /\ \A j \in 1..n : HasTeamKeys(data, table[j])
            /\ n < Len(table) => ~HasTeamKeys(data, table[n + 1])))

teams_data(data, table) ==
    RowsOf(data, Filter(table, [i \in 1..Len(table) |-> HasTeamKeys(data, table[i])]))

\* the scan for the first standing of type TOTAL: 0 if there is none,
\* -1 if a standing before it has no 'type' key (KeyError)
RECURSIVE FindTotal(_, _)
FindTotal(standings, i) ==
    IF i > Len(standings) THEN 0
    ELSE IF "type" \notin DOMAIN standings[i] THEN 0 - 1
    ELSE IF standings[i].type = "TOTAL" THEN i
    ELSE FindTotal(standings, i + 1)

\* FromTotal answering a missing TOTAL standing like a failure
FromTotalNoneWithoutTotal(data, t) ==
    IF t <= 0 THEN Ret("None", <<>>, "", TRUE)
    ELSE IF "table" \notin DOMAIN data.standings[t]
    THEN Ret("None", <<>>, "", TRUE)
    ELSE Ret("list", teams_data(data, data.standings[t].table), "", TRUE)

\* lines 75-95, t being where the scan for the TOTAL standing ended
FromTotal(data, t) ==
    IF t < 0 THEN Ret("None", <<>>, "", TRUE)
    ELSE IF t = 0 THEN Ret("list", <<>>, "", TRUE)
    ELSE IF "table" \notin DOMAIN data.standings[t]
    THEN Ret("None", <<>>, "", TRUE)
    ELSE Ret("list", teams_data(data, data.standings[t].table), "", TRUE)

\* get_league_standings answering a non-200 status like a failure
GetLeagueStandingsNoneOnStatus(season, resp) ==
    IF resp.raises = "RequestException" THEN Ret("None", <<>>, "", FALSE)
    ELSE IF resp.raises # "" THEN Ret("raise", <<>>, resp.raises, FALSE)
    ELSE IF resp.status_code = 200
    THEN IF ~resp.decodable THEN Ret("None", <<>>, "", TRUE)
         ELSE IF "standings" \notin DOMAIN resp.data THEN Ret("None", <<>>, "", TRUE)
         ELSE FromTotal(resp.data, FindTotal(resp.data.standings, 1))
    ELSE Ret("None", <<>>, "", FALSE)

get_league_standings(season, resp) ==
    IF resp.raises = "RequestException" THEN Ret("None", <<>>, "", FALSE)
    ELSE IF resp.raises # "" THEN Ret("raise", <<>>, resp.raises, FALSE)
    ELSE IF resp.status_code = 200
    THEN IF ~resp.decodable THEN Ret("None", <<>>, "", TRUE)
         ELSE IF "standings" \notin DOMAIN resp.data THEN Ret("None", <<>>, "", TRUE)
         ELSE FromTotal(resp.data, FindTotal(resp.data.standings, 1))
    ELSE Ret("list", <<>>, "", FALSE)

(***************************************************************************)
(* Dataset Store: judge_incremental (merge_check) and save_to_csv (save).  *)
(***************************************************************************)
\* the names step1_getcsv.py imports from utils.constants
ImportedNames ==
    {"STATS_COLUMNS", "CSV_FILENAME", "API_TOKEN", "API_BASE_URL",
     "S3_BUCKET_NAME", "S3_FOLDER_DATA"}

\* the name judge_incremental builds the S3 key from
JudgeFolderName == "S3_FOLDER"

composite_key(row) == ToString(row.year) \o "_" \o row.teamName

\* df['composite_key'] = df['year'].astype(str) + '_' + df['teamName']
WithCompositeKey(df) ==
    [df EXCEPT
        !.columns = IF "composite_key" \in Range(df.columns)
                    THEN df.columns
                    ELSE Append(df.columns, "composite_key"),
        !.rows = [i \in 1..Len(df.rows) |->
                    [c \in Range(df.columns) \cup {"composite_key"} |->
                        IF c = "composite_key"
                        THEN composite_key(df.rows[i])
                        ELSE df.rows[i][c]]]]

Keys(df) == {df.rows[i].composite_key : i \in 1..Len(df.rows)}

\* lines 132-140: compare the incoming keys with the stored ones
NewRecords(df, existing_keys) ==
    {i \in 1..Len(df.rows) : df.rows[i].composite_key \notin existing_keys}

HasNewRecords(df, file) ==
    NewRecords(df, Keys(WithCompositeKey(read_csv(file)))) # {}

\* Returns [ret, df]: df is the caller's frame, which gains the
\* composite_key column in place.  readable: the stored file can be read
\* and parsed.
JudgeKeyed(keyed, e, local, s3, readable) ==
    IF e = "aws"
    THEN IF JudgeFolderName \notin ImportedNames
         THEN [ret |-> TRUE, df |-> keyed]       \* NameError, caught at 142
         ELSE IF ~s3.exists THEN [ret |-> TRUE, df |-> keyed]
         ELSE IF ~readable THEN [ret |-> TRUE, df |-> keyed]
         ELSE [ret |-> HasNewRecords(keyed, s3), df |-> keyed]
    ELSE IF ~local.exists THEN [ret |-> TRUE, df |-> keyed]
         ELSE IF ~readable THEN [ret |-> TRUE, df |-> keyed]
         ELSE [ret |-> HasNewRecords(keyed, local), df |-> keyed]

judge_incremental(df, e, local, s3, readable) ==
    JudgeKeyed(WithCompositeKey(df), e, local, s3, readable)

\* the stored file with the lines of df written after its own
AppendedTo(file, df) ==
    IF file.exists
    THEN [to_csv(df) EXCEPT !.lines = file.lines \o to_csv(df).lines]
    ELSE to_csv(df)

\* save_to_csv opening the file in append mode
SaveToCsvAppends(df, e, local, s3, writable) ==
    IF ~writable THEN [ret |-> FALSE, local |-> local, s3 |-> s3]
    ELSE IF e = "aws"
    THEN [ret |-> TRUE, local |-> local, s3 |-> AppendedTo(s3, df)]
    ELSE [ret |-> TRUE, local |-> AppendedTo(local, df), s3 |-> s3]

\* Returns [ret, local, s3]: the two files after the call.  writable: the
\* write (to_csv, or put_object) succeeds.
save_to_csv(df, e, local, s3, writable) ==
    IF ~writable THEN [ret |-> FALSE, local |-> local, s3 |-> s3]
    ELSE IF e = "aws"
    THEN [ret |-> TRUE, local |-> local, s3 |-> to_csv(df)]
    ELSE [ret |-> TRUE, local |-> to_csv(df), s3 |-> s3]

(***************************************************************************)
(* The fetch driver: main() of step1_getcsv.py.                            *)
(***************************************************************************)
Call(fn, arg) == [fn |-> fn, arg |-> arg]

\* FetchLoop with "break" for "continue": the loop ends at the first season
\* that returns None
RECURSIVE FetchLoopBreaks(_, _)
FetchLoopBreaks(ups, i) ==
    IF i > Len(years) THEN <<>>
    ELSE LET r == get_league_standings(years[i], ups[i])
         IN  IF r.kind # "list" THEN <<r>> ELSE <<r>> \o FetchLoopBreaks(ups, i + 1)

\* the loop over years: the return values in order; an exception that
\* get_league_standings lets through ends the loop
RECURSIVE FetchLoop(_, _)
FetchLoop(ups, i) ==
    IF i > Len(years) THEN <<>>
    ELSE LET r == get_league_standings(years[i], ups[i])
         IN  IF r.kind = "raise" THEN <<r>> ELSE <<r>> \o FetchLoop(ups, i + 1)

\* all_data.extend(season_data) for every season_data that is not None
Accumulate(results) ==
    Concat([i \in 1..Len(results) |->
               IF results[i].kind = "list" THEN results[i].items ELSE <<>>])

BoolStr(b) == IF b THEN "True" ELSE "False"

FetchCalls(n) == [i \in 1..n |-> Call("get_league_standings", ToString(years[i]))]

\* lines 157-159: nothing collected, nothing judged or saved
RunBase(local, s3, results, data) ==
    [local |-> local, s3 |-> s3, season_data |-> results, all_data |-> data,
     calls |-> FetchCalls(Len(results)),
     judged |-> "not_called", saved |-> "not_called"]

\* line 179, s being what save_to_csv returned
AfterSave(base, s) ==
    [base EXCEPT
        !.local = s.local, !.s3 = s.s3,
        !.calls = base.calls \o <<Call("judge_incremental", ""), Call("save_to_csv", "")>>,
        !.judged = "True", !.saved = BoolStr(s.ret)]

\* line 178, j being what judge_incremental returned
AfterJudge(base, j, e, local, s3, writable) ==
    IF j.ret
    THEN AfterSave(base, save_to_csv(j.df, e, local, s3, writable))
    ELSE [base EXCEPT
            !.calls = Append(base.calls, Call("judge_incremental", "")),
            !.judged = "False"]

\* AfterLoop without the "if not all_data: return" of lines 157-159
AfterLoopNoAbort(e, local, s3, results, data, readable, writable) ==
    AfterJudge(RunBase(local, s3, results, data),
               judge_incremental(DataFrame(BaseColumns, data), e, local, s3, readable),
               e, local, s3, writable)

\* lines 157-179, data being all_data after the loop
AfterLoop(e, local, s3, results, data, readable, writable) ==
    IF data = <<>> THEN RunBase(local, s3, results, data)
    ELSE AfterJudge(RunBase(local, s3, results, data),
                    judge_incremental(DataFrame(BaseColumns, data), e, local, s3, readable),
                    e, local, s3, writable)

Aborted(results) == results # <<>> /\ results[Len(results)].kind = "raise"

\* lines 147-182, results being the return values of the loop's calls
Driver(e, local, s3, results, readable, writable) ==
    IF Aborted(results) THEN RunBase(local, s3, results, <<>>)
    ELSE AfterLoop(e, local, s3, results, Accumulate(results), readable, writable)

\* Returns what the run did and the two files after it.
get_csv_main(e, local, s3, ups, readable, writable) ==
    Driver(e, local, s3, FetchLoop(ups, 1), readable, writable)

(***************************************************************************)
(* main() of step1_getcsv.py as the steps of one of several invocations    *)
(* that run at the same time: the fetch loop, which touches no shared      *)
(* state, the call of judge_incremental, which reads the stored file, and  *)
(* the call of save_to_csv, which writes it.  Nothing locks the file       *)
(* between the two calls.                                                  *)
(***************************************************************************)
Invocations == {1, 2}

\* an invocation that has not begun.  saw: the stored file at the time of
\* its call of judge_incremental
NotStarted ==
    [pc |-> "start", all_data |-> <<>>, df |-> NoneDf, judged |-> "not_called",
     saw |-> Absent, saved |-> "not_called"]

\* writes: the invocations whose save_to_csv wrote the file, in order
NoRuns == [inv |-> [p \in Invocations |-> NotStarted], writes |-> <<>>]

\* lines 148-165, results being the return values of the loop's calls
AfterFetch(run, results) ==
    IF Aborted(results) \/ Accumulate(results) = <<>>
    THEN [run EXCEPT !.pc = "done"]
    ELSE [run EXCEPT !.pc = "fetched", !.all_data = Accumulate(results)]

\* line 178, j being what judge_incremental returned over the file stored
AfterCheck(run, j, stored) ==
    [run EXCEPT !.pc = IF j.ret THEN "checked" ELSE "done",
                !.df = j.df, !.judged = BoolStr(j.ret), !.saw = stored]

SavedBy(run, s) ==
    [run |-> [run EXCEPT !.pc = "done", !.saved = BoolStr(s.ret)],
     local |-> s.local, s3 |-> s.s3]

\* SaveAfterCheck behind a second judge_incremental over the file as it is
\* when the save begins
SaveAfterRecheck(run, e, local, s3, writable) ==
    IF judge_incremental(run.df, e, local, s3, TRUE).ret
    THEN SavedBy(run, save_to_csv(run.df, e, local, s3, writable))
    ELSE [run |-> [run EXCEPT !.pc = "done"], local |-> local, s3 |-> s3]

\* line 179, after judge_incremental returned True, over the two files as
\* they are by then.  Returns the invocation and the two files after it.
SaveAfterCheck(run, e, local, s3, writable) ==
    SavedBy(run, save_to_csv(run.df, e, local, s3, writable))

(***************************************************************************)
(* Loading, validating, cleaning and rendering: step2_summarize.py.        *)
(***************************************************************************)
\* readable: get_object, decode and parse succeed.  Every failure, a
\* missing object and an empty table all end in "return None".
read_csv_data(s3, readable) ==
    IF ~readable \/ ~s3.exists THEN NoneDf
    ELSE IF s3.lines = <<>> THEN NoneDf
    ELSE read_csv(s3)

\* read_csv_data was not called
NotLoaded == [fn |-> "", ret |-> NoneDf, exc |-> ""]

\* read_csv_data without the except clauses of lines 79-87
LoadCallPropagates(s3, readable) ==
    [fn  |-> "read_csv_data",
     ret |-> read_csv_data(s3, readable),
     exc |-> IF s3.exists /\ ~readable THEN "ParserError"
             ELSE IF s3.exists /\ s3.lines = <<>> THEN "EmptyDataError"
             ELSE ""]

\* a call of read_csv_data: the frame returned (NoneDf for None) and the
\* exception it let through to its caller ("": every except clause of lines
\* 76-87 returns None)
LoadCall(s3, readable) ==
    [fn |-> "read_csv_data", ret |-> read_csv_data(s3, readable), exc |-> ""]

\* datetime.now().year
now_year == 2026

PremierLeagueStart == 1992

SetMin(S) == CHOOSE x \in S : \A y \in S : x <= y
SetMax(S) == CHOOSE x \in S : \A y \in S : x >= y

Verdict(valid, message) == [valid |-> valid, message |-> message]

\* CheckYears without the check of lines 120-123
CheckYearsAllowsGaps(ys, now) ==
    IF NaN \in ys
    THEN Verdict(FALSE, "Year format wrong: It should be int.")
    ELSE IF SetMin(ys) < PremierLeagueStart
    THEN Verdict(FALSE, "Year out of range: earlier than 1992")
    ELSE IF SetMax(ys) > now
    THEN Verdict(FALSE, "Year out of range: later than now")
    ELSE Verdict(TRUE, "Year verification passed")

\* lines 108-126, ys being the set of values of the year column
CheckYears(ys, now) ==
    IF NaN \in ys
    THEN Verdict(FALSE, "Year format wrong: It should be int.")
    ELSE IF SetMin(ys) < PremierLeagueStart
    THEN Verdict(FALSE, "Year out of range: earlier than 1992")
    ELSE IF SetMax(ys) > now
    THEN Verdict(FALSE, "Year out of range: later than now")
    ELSE IF Cardinality(ys) > 1 /\ ys # SetMin(ys)..SetMax(ys)
    THEN Verdict(FALSE, "Years are not consecutive")
    ELSE Verdict(TRUE, "Year verification passed")

validate_years(df, now) ==
    IF df.isNone THEN Verdict(FALSE, "No data to validate")
    ELSE IF "year" \notin Range(df.columns) \/ df.rows = <<>>
    THEN Verdict(FALSE, "Year validation error")
    ELSE CheckYears({df.rows[i].year : i \in 1..Len(df.rows)}, now)

RECURSIVE Insert(_, _)
Insert(x, s) ==
    IF s = <<>> THEN <<x>>
    ELSE IF x <= Head(s) THEN <<x>> \o s
    ELSE <<Head(s)>> \o Insert(x, Tail(s))

RECURSIVE Sorted(_)
Sorted(s) == IF s = <<>> THEN <<>> ELSE Insert(Head(s), Sorted(Tail(s)))

\* Middle2 taking the lower of the two middle values
Middle2Lower(vals, n) ==
    IF n = 0 THEN NaN
    ELSE 2 * vals[(n + 1) \div 2]

\* twice df[column].median(): the median skips missing values, and is NaN
\* when every value is missing
Middle2(vals, n) ==
    IF n = 0 THEN NaN
    ELSE IF n % 2 = 1 THEN 2 * vals[(n + 1) \div 2]
    ELSE vals[n \div 2] + vals[(n \div 2) + 1]

Column(rows, column) == [i \in 1..Len(rows) |-> rows[i][column]]

Present(vals) == Filter(vals, [i \in 1..Len(vals) |-> vals[i] # NaN])

Median2(df, column) ==
    Middle2(Sorted(Present(Column(df.rows, column))),
            Len(Present(Column(df.rows, column))))

\* lines 157-170, missing being the columns with a missing value
Impute(df, missing) ==
    IF missing = {} THEN df
    ELSE [df EXCEPT
            !.halves = missing,
            !.rows = [i \in 1..Len(df.rows) |->
                        [c \in DOMAIN df.rows[i] |->
                            IF c \notin missing THEN df.rows[i][c]
                            ELSE IF df.rows[i][c] = NaN THEN Median2(df, c)
                            ELSE 2 * df.rows[i][c]]]]

\* clean_data imputing without looking at the verdict of validate_years
CleanDataIgnoresVerdict(df, now) ==
    IF df.isNone THEN NoneDf
    ELSE IF ~(Range(STATS_COLUMNS) \subseteq Range(df.columns)) THEN NoneDf
    ELSE Impute(df, {c \in Range(STATS_COLUMNS) :
                        \E i \in 1..Len(df.rows) : df.rows[i][c] = NaN})

\* Returns the frame, or NoneDf.  A column that had a missing value comes
\* back as float64: its cells count halves (see DataFrame).
clean_data(df, now) ==
    IF df.isNone THEN NoneDf
    ELSE IF ~validate_years(df, now).valid THEN NoneDf
    ELSE IF ~(Range(STATS_COLUMNS) \subseteq Range(df.columns)) THEN NoneDf
    ELSE Impute(df, {c \in Range(STATS_COLUMNS) :
                        \E i \in 1..Len(df.rows) : df.rows[i][c] = NaN})

ChartName(stat) == stat \o "_by_team_and_year.png"

\* PlotCalls without the plt.close() of the except clause (line 301)
PlotCallsLeavesFigureOpen(stat, e, outcome) ==
    <<Call("plt.figure", stat)>>
    \o (IF outcome[stat] = "error" THEN <<>>
        ELSE <<Call(IF e = "aws" THEN "save_plot_to_s3" ELSE "plt.savefig", stat),
               Call("plt.close", stat)>>)

\* one turn of the loop over STATS_COLUMNS
PlotCalls(stat, e, outcome) ==
    <<Call("plt.figure", stat)>>
    \o (IF outcome[stat] = "error" THEN <<>>
        ELSE <<Call(IF e = "aws" THEN "save_plot_to_s3" ELSE "plt.savefig", stat)>>)
    \o <<Call("plt.close", stat)>>

ChartsOf(ok) == [i \in 1..Len(ok) |-> ChartName(ok[i])]

\* outcome[stat]: "ok", "error" (an exception while sorting, plotting or
\* saving locally) or "not_saved" (save_plot_to_s3 caught its own failure).
\* Returns the calls made and the charts persisted.
draw_plots(df_filtered, e, dirOk, outcome) ==
    IF df_filtered.isNone THEN [calls |-> <<>>, charts |-> <<>>]
    ELSE IF e # "aws" /\ ~dirOk
    THEN [calls |-> <<Call("create_plot_directory", "")>>, charts |-> <<>>]
    ELSE [calls  |-> (IF e # "aws" THEN <<Call("create_plot_directory", "")>> ELSE <<>>)
                     \o Concat([i \in 1..Len(STATS_COLUMNS) |->
                                   PlotCalls(STATS_COLUMNS[i], e, outcome)]),
          charts |-> ChartsOf(Filter(STATS_COLUMNS,
                        [i \in 1..Len(STATS_COLUMNS) |-> outcome[STATS_COLUMNS[i]] = "ok"]))]

\* neither validate_years nor clean_data was called
NoCleaning ==
    [fn |-> "", df |-> NoneDf, verdict |-> Verdict(FALSE, ""),
     cleaned |-> NoneDf, after |-> NoneDf]

\* a call of validate_years(df): the frame given and the verdict returned
ValidateCall(df, now) ==
    [fn |-> "validate_years", df |-> df, verdict |-> validate_years(df, now),
     cleaned |-> NoneDf, after |-> df]

\* a call of clean_data(df): the frame given, the verdict of the
\* validate_years call inside it, the frame returned, and the caller's
\* frame after the call (line 161 imputes on a copy)
CleanCall(df, now) ==
    [fn |-> "clean_data", df |-> df, verdict |-> validate_years(df, now),
     cleaned |-> clean_data(df, now), after |-> df]

\* draw_plots was not called
NotPlotted == [fn |-> "", df |-> NoneDf]

\* a call of draw_plots(df_filtered): the frame given
PlotCall(df_filtered) == [fn |-> "draw_plots", df |-> df_filtered]

\* lines 311-316, c being the call of clean_data
AfterClean(c, plots) ==
    IF c.cleaned.isNone
    THEN [calls |-> <<Call("read_csv_data", ""), Call("clean_data", "")>>,
          charts |-> <<>>, cleaning |-> c, plotting |-> NotPlotted]
    ELSE [calls |-> <<Call("read_csv_data", ""), Call("clean_data", ""),
                      Call("draw_plots", "")>> \o plots.calls,
          charts |-> plots.charts, cleaning |-> c, plotting |-> PlotCall(c.cleaned)]

\* lines 308-318, df being what read_csv_data returned
AfterRead(df, e, dirOk, outcome) ==
    IF df.isNone
    THEN [calls |-> <<Call("read_csv_data", "")>>, charts |-> <<>>,
          cleaning |-> NoCleaning, plotting |-> NotPlotted]
    ELSE AfterClean(CleanCall(df, now_year),
                    draw_plots(clean_data(df, now_year), e, dirOk, outcome))

\* main() of step2_summarize.py
summarize_main(e, s3, readable, dirOk, outcome) ==
    AfterRead(read_csv_data(s3, readable), e, dirOk, outcome)

(***************************************************************************)
(* KPI Query Service: main(event) of step3_query_kpi_from_csv.py.          *)
(* An event body is [decodable, json]: json.loads raises on text that is   *)
(* not JSON, and otherwise returns the object json.                        *)
(***************************************************************************)
QueryResult(exc, rows) == [exc |-> exc, Result |-> rows]

\* line 39 and to_dict(orient='records')
Project(filtered_df, kpi_name) ==
    [i \in 1..Len(filtered_df) |->
        [c \in {"year", "teamName", kpi_name} |-> filtered_df[i][c]]]

\* QueryRows with an exclusive upper bound on the year
QueryRowsExclusive(df, start_year, end_year, team_name_list, kpi_name) ==
    Project(Filter(df.rows,
                   [i \in 1..Len(df.rows) |->
                       /\ df.rows[i].year # NaN
                       /\ df.rows[i].year >= start_year
                       /\ df.rows[i].year < end_year
                       /\ \/ Len(team_name_list) = 0
                          \/ df.rows[i].teamName \in Range(team_name_list)]),
            kpi_name)

\* lines 31-39
QueryRows(df, start_year, end_year, team_name_list, kpi_name) ==
    Project(Filter(df.rows,
                   [i \in 1..Len(df.rows) |->
                       /\ df.rows[i].year # NaN
                       /\ df.rows[i].year >= start_year
                       /\ df.rows[i].year <= end_year
                       /\ \/ Len(team_name_list) = 0
                          \/ df.rows[i].teamName \in Range(team_name_list)]),
            kpi_name)

\* lines 21-46, payload being the decoded body and df the loaded frame
QueryPayload(payload, df) ==
    IF "StartYear" \notin DOMAIN payload
    THEN QueryResult("KeyError: 'StartYear'", <<>>)
    ELSE IF "EndYear" \notin DOMAIN payload
    THEN QueryResult("KeyError: 'EndYear'", <<>>)
    ELSE IF "TeamNameList" \notin DOMAIN payload
    THEN QueryResult("KeyError: 'TeamNameList'", <<>>)
    ELSE IF "KPIName" \notin DOMAIN payload
    THEN QueryResult("KeyError: 'KPIName'", <<>>)
    ELSE IF df.isNone
    THEN QueryResult("TypeError: 'NoneType' object is not subscriptable", <<>>)
    ELSE IF {"year", "teamName", payload.KPIName} \subseteq Range(df.columns)
    THEN QueryResult("", QueryRows(df, payload.StartYear, payload.EndYear,
                                   payload.TeamNameList, payload.KPIName))
    ELSE QueryResult("KeyError: not in index", <<>>)

\* exc is the exception that escapes main ("" if it returns)
query_kpi_from_csv_main(ev, s3, readable) ==
    IF "body" \notin DOMAIN ev THEN QueryResult("KeyError: 'body'", <<>>)
    ELSE IF ~ev.body.decodable THEN QueryResult("JSONDecodeError", <<>>)
    ELSE QueryPayload(ev.body.json, read_csv_data(s3, readable))

(***************************************************************************)
(* Request Router: handler(event, context) of handler.py.                  *)
(***************************************************************************)
headers ==
    ("Access-Control-Allow-Origin" :> "*")
    @@ ("Access-Control-Allow-Headers" :> "Content-Type")
    @@ ("Access-Control-Allow-Methods" :> "OPTIONS,POST,GET")

\* json.dumps(obj): the body is the JSON text of obj
json_dumps(obj) == [json |-> obj]

Response(statusCode, obj) ==
    [statusCode |-> statusCode, headers |-> headers, body |-> json_dumps(obj)]

\* no response: nothing was returned (yet)
NoResponse ==
    [statusCode |-> 0, headers |-> <<>>, body |-> json_dumps(<<>>)]

HasPath(ev) ==
    /\ "requestContext" \in DOMAIN ev
    /\ "http" \in DOMAIN ev.requestContext
    /\ "path" \in DOMAIN ev.requestContext.http

\* What an invocation leaves behind when it touches nothing.
Untouched(local, s3) ==
    [local |-> local, s3 |-> s3, season_data |-> <<>>, all_data |-> <<>>,
     calls |-> <<>>, judged |-> "not_called", saved |-> "not_called",
     charts |-> <<>>, loaded |-> NotLoaded, cleaning |-> NoCleaning,
     plotting |-> NotPlotted, response |-> NoResponse,
     raised |-> "", logged |-> ""]

\* GetCsvBranch answering 500 when save_to_csv returned False
GetCsvBranchInspectsSave(idle, run) ==
    [idle EXCEPT
        !.local = run.local, !.s3 = run.s3,
        !.season_data = run.season_data,
        !.all_data = run.all_data,
        !.calls = <<Call("get_csv_main", "")>> \o run.calls,
        !.judged = run.judged, !.saved = run.saved,
        !.response = IF run.saved = "False"
                     THEN Response(500, [message |-> "Internal Server Error"])
                     ELSE Response(200, [message |-> "CSV file saved."])]

\* lines 22-27, run being what get_csv_main did
GetCsvBranch(idle, run) ==
    [idle EXCEPT
        !.local = run.local, !.s3 = run.s3,
        !.season_data = run.season_data,
        !.all_data = run.all_data,
        !.calls = <<Call("get_csv_main", "")>> \o run.calls,
        !.judged = run.judged, !.saved = run.saved,
        !.response = Response(200, [message |-> "CSV file saved."])]

\* lines 30-35, run being what summarize_main did
SummarizeBranch(idle, run) ==
    [idle EXCEPT
        !.calls = <<Call("summarize_main", "")>> \o run.calls,
        !.charts = run.charts,
        !.cleaning = run.cleaning,
        !.plotting = run.plotting,
        !.response = Response(200, [message |-> "Summarized"])]

\* QueryBranch with the except clause answering str(e)
QueryBranchLeaks(idle, q) ==
    IF q.exc = ""
    THEN [idle EXCEPT
            !.calls = <<Call("query_kpi_from_csv_main", "")>>,
            !.response = Response(200, [Result |-> q.Result])]
    ELSE [idle EXCEPT
            !.calls = <<Call("query_kpi_from_csv_main", "")>>,
            !.logged = q.exc,
            !.response = Response(500, [message |-> q.exc])]

\* lines 38-43 and 52-58, q being the outcome of query_kpi_from_csv_main
QueryBranch(idle, q) ==
    IF q.exc = ""
    THEN [idle EXCEPT
            !.calls = <<Call("query_kpi_from_csv_main", "")>>,
            !.response = Response(200, [Result |-> q.Result])]
    ELSE [idle EXCEPT
            !.calls = <<Call("query_kpi_from_csv_main", "")>>,
            !.logged = q.exc,
            !.response = Response(500, [message |-> "Internal Server Error"])]

\* Dispatch with the summarize branch as the final else
DispatchDefaultsToSummarize(path, idle, ev, e, local, s3, ups, in) ==
    IF path = "/get_csv"
    THEN GetCsvBranch(idle, get_csv_main(e, local, s3, ups, in.readable, in.writable))
    ELSE IF path = "/query_kpi_from_csv"
    THEN QueryBranch(idle, query_kpi_from_csv_main(ev, s3, in.readable))
    ELSE SummarizeBranch(idle, summarize_main(e, s3, in.readable, in.dirOk, in.plot))

\* lines 20-50; summarize_main and query_kpi_from_csv_main both begin with
\* the call of read_csv_data that loaded records
Dispatch(path, idle, ev, e, local, s3, ups, in) ==
    IF path = "/get_csv"
    THEN GetCsvBranch(idle, get_csv_main(e, local, s3, ups, in.readable, in.writable))
    ELSE IF path = "/summarize"
    THEN SummarizeBranch([idle EXCEPT !.loaded = LoadCall(s3, in.readable)],
                         summarize_main(e, s3, in.readable, in.dirOk, in.plot))
    ELSE IF path = "/query_kpi_from_csv"
    THEN QueryBranch([idle EXCEPT !.loaded = LoadCall(s3, in.readable)],
                     query_kpi_from_csv_main(ev, s3, in.readable))
    ELSE [idle EXCEPT !.response = Response(404, [message |-> "Not Found"])]

\* in: the storage and rendering outcomes the invocation meets
handler(ev, e, local, s3, ups, in) ==
    IF ~HasPath(ev)
    THEN \* line 12 raises KeyError; the except clause then reads the
         \* local name headers, which line 14 has not bound yet
         [Untouched(local, s3) EXCEPT
             !.raised = "UnboundLocalError",
             !.logged = "KeyError: 'requestContext'"]
    ELSE Dispatch(ev.requestContext.http.path, Untouched(local, s3),
                  ev, e, local, s3, ups, in)

(***************************************************************************)
(* The inputs the model draws from.                                        *)
(***************************************************************************)
TeamNames == {"A", "B"}

TeamRow(name, won, draw) ==
    [team |-> [name |-> name], won |-> won, draw |-> draw, lost |-> 0,
     goalsFor |-> won, goalsAgainst |-> 1]

Body200(season, table) ==
    [filters |-> [season |-> season],
     season |-> [startDate |-> "08-01", endDate |-> "05-31"],
     standings |-> <<[type |-> "HOME", table |-> <<>>],
                     [type |-> "TOTAL", table |-> table]>>]

ApiResponse(raises, status_code, decodable, data) ==
    [raises |-> raises, status_code |-> status_code, decodable |-> decodable,
     data |-> data]

\* What the API answers to one season request of a fetch run: a transport
\* failure, an exception requests does not wrap, a 404, the season's table,
\* or a revised table with a JSON null among its statistics.
SeasonAnswer(kind, season) ==
    CASE kind = "transport" -> ApiResponse("RequestException", 0, FALSE, <<>>)
      [] kind = "exception" -> ApiResponse("Exception", 0, FALSE, <<>>)
      [] kind = "404"       -> ApiResponse("", 404, TRUE, [message |-> "not found"])
      [] kind = "table"     -> ApiResponse("", 200, TRUE,
                                  Body200(season, <<TeamRow("A", 1, 1)>>))
      [] kind = "revised"   -> ApiResponse("", 200, TRUE,
                                  Body200(season, <<TeamRow("B", 1, 0),
                                                    TeamRow("A", 2, NaN)>>))

AnswerKinds == {"transport", "exception", "404", "table", "revised"}

\* Only the table of the last season, the one still being played, changes
\* from one run to the next.
Upstreams ==
    {[i \in 1..NumSeasons |-> SeasonAnswer(k[i], years[i])] :
        k \in {kk \in [1..NumSeasons -> AnswerKinds] :
                  \A i \in 1..(NumSeasons - 1) : kk[i] # "revised"}}

\* the answers of the fetch pipeline's runs: every combination of per-season
\* answers in which requests.get returns or fails the way requests documents
FetchUpstreams ==
    {ups \in Upstreams : \A i \in 1..NumSeasons : ups[i].raises # "Exception"}

NoUpstream == <<>>

Event(path, body) == [requestContext |-> [http |-> [path |-> path]], body |-> body]

JsonBody(obj) == [decodable |-> TRUE, json |-> obj]

NotJson == [decodable |-> FALSE, json |-> <<>>]

Payload(start_year, end_year, team_name_list, kpi_name) ==
    [StartYear |-> start_year, EndYear |-> end_year,
     TeamNameList |-> team_name_list, KPIName |-> kpi_name]

Payloads ==
    {Payload(years[1], years[NumSeasons], <<>>, "won"),
     Payload(years[1], years[1], <<"B", "C">>, "draw"),
     Payload(years[1], years[NumSeasons], <<>>, "assists")}

QueryBodies ==
    {JsonBody(p) : p \in Payloads}
    \cup {NotJson,
          JsonBody([StartYear |-> years[1], EndYear |-> years[1],
                    TeamNameList |-> <<>>]),
          JsonBody([EndYear |-> years[1], TeamNameList |-> <<>>,
                    KPIName |-> "won"])}

GetCsvEvents == {Event("/get_csv", JsonBody(<<>>))}

SummarizeEvents == {Event("/summarize", JsonBody(<<>>))}

QueryEvents ==
    {Event("/query_kpi_from_csv", b) : b \in QueryBodies}
    \cup {[requestContext |-> [http |-> [path |-> "/query_kpi_from_csv"]]]}

OtherPathEvents ==
    {Event(p, JsonBody(<<>>)) : p \in {"/unknown_path", "/get_csv/", "/", ""}}

\* events handler cannot read a path from
NoPathEvents ==
    {[body |-> JsonBody(<<>>)],
     [requestContext |-> [routeKey |-> "$default"], body |-> JsonBody(<<>>)]}

NoEvent == [none |-> TRUE]

AllOk == [c \in Range(STATS_COLUMNS) |-> "ok"]

\* how the rendering of each statistic ends, for the router's runs
PlotOutcomes ==
    {AllOk,
     [AllOk EXCEPT !["draw"] = "error"],
     [AllOk EXCEPT !["won"] = "not_saved", !["goalsFor"] = "error"],
     [c \in Range(STATS_COLUMNS) |-> "error"]}

In(readable, writable, dirOk, plot) ==
    [readable |-> readable, writable |-> writable, dirOk |-> dirOk, plot |-> plot]

Calm == In(TRUE, TRUE, TRUE, AllOk)

\* the answers of the router's fetch runs: the first season answered in
\* any way and the later ones failing in transport, or every season
\* answered with its table
RouterUpstreams ==
    {ups \in Upstreams :
        \/ \A i \in 2..NumSeasons : ups[i].raises = "RequestException"
        \/ \A i \in 1..NumSeasons : ups[i].status_code = 200}

\* the file a run stores for the given records
FileOf(rows) == to_csv(WithCompositeKey(DataFrame(BaseColumns, rows)))

\* A dataset an earlier run left in the bucket.
SeedFile ==
    FileOf(teams_data(Body200(FirstSeason, <<>>), <<TeamRow("A", 1, 1), TeamRow("B", 2, 0)>>)
           \o teams_data(Body200(FirstSeason + 1, <<>>), <<TeamRow("A", 2, 1)>>))

\* The same, from a run in which the second season could not be fetched.
GapSeedFile ==
    FileOf(teams_data(Body200(FirstSeason, <<>>), <<TeamRow("A", 1, 1), TeamRow("B", 2, 0)>>)
           \o teams_data(Body200(FirstSeason + 2, <<>>), <<TeamRow("A", 2, 1)>>))

(***************************************************************************)
(* State machine.                                                          *)
(***************************************************************************)
Stored == IF env = "aws" THEN s3Object ELSE localFile

\* no invocation yet
Fresh ==
    /\ event = NoEvent
    /\ upstream = NoUpstream
    /\ io = Calm
    /\ before = Absent
    /\ wasRerun = FALSE
    /\ season_data = <<>>
    /\ all_data = <<>>
    /\ calls = <<>>
    /\ judged = "not_called"
    /\ saved = "not_called"
    /\ charts = <<>>
    /\ loaded = NotLoaded
    /\ cleaning = NoCleaning
    /\ plotting = NotPlotted
    /\ response = NoResponse
    /\ raised = ""
    /\ logged = ""
    /\ runs = NoRuns

Init ==
    /\ env \in {"aws", "local"}
    /\ localFile = Absent
    /\ s3Object \in {Absent, SeedFile, GapSeedFile}
    /\ Fresh

\* One invocation of handler with event ev, upstream answers ups and
\* storage outcomes in; out is what handler did.
Record(ev, ups, in, out) ==
        /\ localFile' = out.local
        /\ s3Object' = out.s3
        /\ event' = ev
        /\ upstream' = ups
        /\ io' = in
        /\ before' = Stored
        /\ wasRerun' = /\ ups # NoUpstream
                       /\ ups = upstream
                       /\ (saved = "True" \/ judged = "False")
        /\ season_data' = out.season_data
        /\ all_data' = out.all_data
        /\ calls' = out.calls
        /\ judged' = out.judged
        /\ saved' = out.saved
        /\ charts' = out.charts
        /\ loaded' = out.loaded
        /\ cleaning' = out.cleaning
        /\ plotting' = out.plotting
        /\ response' = out.response
        /\ raised' = out.raised
        /\ logged' = out.logged
        /\ UNCHANGED <<env, runs>>

Invoke(ev, ups, in) ==
    \E out \in {handler(ev, env, localFile, s3Object, ups, in)} :
        Record(ev, ups, in, out)

\* whether judge_incremental, once called, reads the stored file
ReadsStored ==
    /\ Stored.exists
    /\ (env = "aws" => JudgeFolderName \in ImportedNames)

\* POST /get_csv.  A storage outcome is drawn only where the run meets it.
GetCsv(answers) ==
    \E ev \in GetCsvEvents, ups \in answers :
        \E r \in IF ReadsStored THEN BOOLEAN ELSE {TRUE}, w \in BOOLEAN :
            \E out \in {handler(ev, env, localFile, s3Object, ups, In(r, w, TRUE, AllOk))} :
                /\ ~r => out.judged # "not_called"
                /\ ~w => out.saved # "not_called"
                /\ Record(ev, ups, In(r, w, TRUE, AllOk), out)

\* POST /summarize
Summarize ==
    \E ev \in SummarizeEvents, r \in BOOLEAN, d \in BOOLEAN, plot \in PlotOutcomes :
        \E df \in {clean_data(read_csv_data(s3Object, r), now_year)} :
            /\ ~r => s3Object.exists
            /\ ~d => (env # "aws" /\ ~df.isNone)
            /\ plot # AllOk => (~df.isNone /\ (d \/ env = "aws"))
            /\ \A c \in DOMAIN plot : plot[c] = "not_saved" => env = "aws"
            /\ Invoke(ev, NoUpstream, In(r, TRUE, d, plot))

\* POST /query_kpi_from_csv
Query(events) ==
    \E ev \in events, r \in BOOLEAN :
        /\ ~r => s3Object.exists
        /\ Invoke(ev, NoUpstream, In(r, TRUE, TRUE, AllOk))

\* any other path
OtherPath ==
    \E ev \in OtherPathEvents : Invoke(ev, NoUpstream, Calm)

\* an event without requestContext.http.path
NoPath ==
    \E ev \in NoPathEvents : Invoke(ev, NoUpstream, Calm)

Next ==
    GetCsv(RouterUpstreams) \/ Summarize \/ Query(QueryEvents) \/ OtherPath \/ NoPath

Spec == Init /\ [][Next]_vars

(***************************************************************************)
(* The fetch pipeline alone: every run is a fetch, over every combination  *)
(* of per-season answers.                                                  *)
(***************************************************************************)
FetchNext == GetCsv(FetchUpstreams)

\* every run starts from an empty store
FetchInit == Init /\ s3Object = Absent

FetchSpec == FetchInit /\ [][FetchNext]_vars

(***************************************************************************)
(* The KPI query alone, over every stored dataset of up to MaxRows records *)
(* and every query of a small grid.                                        *)
(***************************************************************************)
StoredRecord(year, name, won, draw) ==
    team_data(Body200(year, <<>>), TeamRow(name, won, draw))

RecordPool ==
    {StoredRecord(FirstSeason, "A", 1, 1),
     StoredRecord(FirstSeason + 1, "B", 2, 0),
     StoredRecord(FirstSeason + 1, "A", 0, NaN),
     StoredRecord(FirstSeason + 2, "A", 2, 2)}

QueryDatasets ==
    {FileOf(rows) : rows \in UNION {[1..n -> RecordPool] : n \in 1..MaxRows}}

GridPayloads ==
    {Payload(a, b, t, k) :
        a \in {FirstSeason, FirstSeason + 1},
        b \in {FirstSeason, FirstSeason + 2},
        t \in {<<>>, <<"A">>, <<"B", "C">>},
        k \in {"won", "draw"}}

GridEvents == {Event("/query_kpi_from_csv", JsonBody(p)) : p \in GridPayloads}

QueryInit ==
    /\ env \in {"aws", "local"}
    /\ localFile = Absent
    /\ s3Object \in QueryDatasets
    /\ Fresh

QueryNext == Query(GridEvents)

QuerySpec == QueryInit /\ [][QueryNext]_vars

(***************************************************************************)
(* get_league_standings alone, over a grid of API responses.               *)
(***************************************************************************)
StatusCodes == {200, 201, 204, 301, 400, 401, 403, 404, 429, 500, 503}

\* team rows: complete, without a statistic, without the team name
TeamRows ==
    {TeamRow("A", 1, 1),
     TeamRow("B", 2, NaN),
     [team |-> [name |-> "A"], won |-> 1, draw |-> 1, lost |-> 0, goalsFor |-> 1],
     [team |-> [id |-> 57], won |-> 1, draw |-> 1, lost |-> 0, goalsFor |-> 1,
      goalsAgainst |-> 1]}

Tables == UNION {[1..n -> TeamRows] : n \in 0..MaxTable}

\* decoded bodies: with a TOTAL table, without one, and malformed ones
Bodies ==
    {Body200(FirstSeason, t) : t \in Tables}
    \cup {[filters |-> [season |-> FirstSeason],
           season |-> [startDate |-> "08-01", endDate |-> "05-31"],
           standings |-> st] :
            st \in {<<>>,
                    <<[type |-> "HOME", table |-> <<TeamRow("A", 1, 1)>>]>>,
                    <<[type |-> "HOME", table |-> <<>>],
                      [type |-> "AWAY", table |-> <<>>]>>,
                    <<[stage |-> "REGULAR_SEASON"]>>,
                    <<[type |-> "TOTAL"]>>}}
    \cup {[message |-> "not found"],
          [standings |-> <<[type |-> "TOTAL", table |-> <<TeamRow("A", 1, 1)>>]>>]}

ApiResponses ==
    {ApiResponse("", c, TRUE, b) : c \in StatusCodes, b \in Bodies}
    \cup {ApiResponse("", c, FALSE, <<>>) : c \in StatusCodes}
    \cup {ApiResponse("RequestException", 0, FALSE, <<>>),
          ApiResponse("Exception", 0, FALSE, <<>>)}

FetcherInit ==
    /\ env \in {"aws", "local"}
    /\ localFile = Absent
    /\ s3Object = Absent
    /\ Fresh

\* one call of get_league_standings, outside any handler invocation
FetchSeason ==
    \E resp \in ApiResponses :
        /\ upstream' = <<resp>>
        /\ season_data' = <<get_league_standings(years[1], resp)>>
        /\ calls' = <<Call("get_league_standings", ToString(years[1]))>>
        /\ UNCHANGED <<env, localFile, s3Object, event, io, before, wasRerun,
                       all_data, judged, saved, charts, loaded, cleaning,
                       plotting, response, raised, logged, runs>>

FetcherNext == FetchSeason

FetcherSpec == FetcherInit /\ [][FetcherNext]_vars

(***************************************************************************)
(* validate_years and clean_data alone, over grids of frames.              *)
(***************************************************************************)
\* year cells around the two limits of validate_years, and a missing one
YearValues ==
    {PremierLeagueStart - 1, PremierLeagueStart, PremierLeagueStart + 1,
     now_year - 1, now_year, now_year + 1, NaN}

YearFrames ==
    {DataFrame(<<"year", "teamName">>,
               [i \in 1..Len(ys) |-> [year |-> ys[i], teamName |-> "A"]]) :
        ys \in UNION {[1..m -> YearValues] : m \in 0..MaxYears}}

\* records with missing statistics, and one of a season after a gap
CleanPool ==
    {StoredRecord(FirstSeason, "A", 1, 1),
     StoredRecord(FirstSeason, "B", 2, NaN),
     StoredRecord(FirstSeason + 1, "A", NaN, NaN),
     StoredRecord(FirstSeason + 1, "B", 0, 0),
     StoredRecord(FirstSeason + 3, "A", 1, 1)}

\* frames of up to MaxRows + 1 records, and one without the statistics
CleanFrames ==
    {DataFrame(BaseColumns, rows) :
        rows \in UNION {[1..n -> CleanPool] : n \in 1..(MaxRows + 1)}}
    \cup {DataFrame(<<"year", "teamName">>, <<[year |-> FirstSeason, teamName |-> "A"]>>)}

CleanerInit ==
    /\ env \in {"aws", "local"}
    /\ localFile = Absent
    /\ s3Object = Absent
    /\ Fresh

\* one call of validate_years, outside any handler invocation
ValidateYears ==
    \E df \in YearFrames \cup {NoneDf} :
        /\ cleaning' = ValidateCall(df, now_year)
        /\ calls' = <<Call("validate_years", "")>>
        /\ UNCHANGED <<env, localFile, s3Object, event, upstream, io, before,
                       wasRerun, season_data, all_data, judged, saved, charts,
                       loaded, plotting, response, raised, logged, runs>>

\* one call of clean_data, outside any handler invocation
CleanData ==
    \E df \in CleanFrames \cup {NoneDf} :
        /\ cleaning' = CleanCall(df, now_year)
        /\ calls' = <<Call("clean_data", "")>>
        /\ UNCHANGED <<env, localFile, s3Object, event, upstream, io, before,
                       wasRerun, season_data, all_data, judged, saved, charts,
                       loaded, plotting, response, raised, logged, runs>>

CleanerNext == ValidateYears \/ CleanData

CleanerSpec == CleanerInit /\ [][CleanerNext]_vars

(***************************************************************************)
(* The summarize pipeline alone, over every stored file of CleanFrames.    *)
(***************************************************************************)
\* an object of zero bytes, and one with a header line only
EmptyFiles ==
    {[exists |-> TRUE, header |-> <<>>, lines |-> <<>>],
     [exists |-> TRUE, header |-> BaseColumns, lines |-> <<>>]}

SummaryInit ==
    /\ env \in {"aws", "local"}
    /\ localFile = Absent
    /\ s3Object \in {to_csv(df) : df \in CleanFrames} \cup EmptyFiles \cup {Absent}
    /\ Fresh

SummaryNext == Summarize

SummarySpec == SummaryInit /\ [][SummaryNext]_vars

(***************************************************************************)
(* draw_plots alone, over every way the rendering of each statistic ends.  *)
(***************************************************************************)
\* locally a statistic is rendered and saved, or an exception is caught;
\* in AWS save_plot_to_s3 may also fail and report it by returning False
EveryPlotOutcome ==
    [Range(STATS_COLUMNS) ->
        IF env = "aws" THEN {"ok", "error", "not_saved"} ELSE {"ok", "error"}]

DrawFrames ==
    {DataFrame(BaseColumns, <<StoredRecord(FirstSeason, "A", 1, 1),
                              StoredRecord(FirstSeason + 1, "A", 2, 0)>>)}

RendererInit ==
    /\ env \in {"aws", "local"}
    /\ localFile = Absent
    /\ s3Object = Absent
    /\ Fresh

\* one call of draw_plots, outside any handler invocation.  An outcome is
\* drawn only where the call meets it.
DrawPlots ==
    \E df \in DrawFrames \cup {NoneDf}, d \in BOOLEAN, outcome \in EveryPlotOutcome :
        \E plots \in {draw_plots(df, env, d, outcome)} :
            /\ ~d => (env # "aws" /\ ~df.isNone)
            /\ outcome # AllOk => (~df.isNone /\ (d \/ env = "aws"))
            /\ plotting' = PlotCall(df)
            /\ io' = In(TRUE, TRUE, d, outcome)
            /\ calls' = <<Call("draw_plots", "")>> \o plots.calls
            /\ charts' = plots.charts
            /\ UNCHANGED <<env, localFile, s3Object, event, upstream, before,
                           wasRerun, season_data, all_data, judged, saved,
                           loaded, cleaning, response, raised, logged, runs>>

RendererNext == DrawPlots

RendererSpec == RendererInit /\ [][RendererNext]_vars

(***************************************************************************)
(* Two fetch invocations at the same time over one dataset location.       *)
(***************************************************************************)
RaceInit ==
    /\ env \in {"aws", "local"}
    /\ localFile \in IF env = "aws" THEN {Absent} ELSE {Absent, SeedFile}
    /\ s3Object \in IF env = "aws" THEN {Absent, SeedFile} ELSE {Absent}
    /\ Fresh

Idle == <<event, upstream, io, before, wasRerun, season_data, all_data, calls,
          judged, saved, charts, loaded, cleaning, plotting, response, raised,
          logged>>

\* invocation p runs its loop over the seasons
RaceFetch(p) ==
    /\ runs.inv[p].pc = "start"
    /\ \E ups \in FetchUpstreams :
           runs' = [runs EXCEPT !.inv[p] = AfterFetch(@, FetchLoop(ups, 1))]
    /\ UNCHANGED <<env, localFile, s3Object, Idle>>

\* invocation p calls judge_incremental
RaceCheck(p) ==
    /\ runs.inv[p].pc = "fetched"
    /\ \E r \in IF ReadsStored THEN BOOLEAN ELSE {TRUE} :
           runs' = [runs EXCEPT !.inv[p] =
                       AfterCheck(@, judge_incremental(
                                         DataFrame(BaseColumns, @.all_data),
                                         env, localFile, s3Object, r),
                                  Stored)]
    /\ UNCHANGED <<env, localFile, s3Object, Idle>>

\* invocation p calls save_to_csv
RaceSave(p) ==
    /\ runs.inv[p].pc = "checked"
    /\ \E w \in BOOLEAN :
           \E out \in {SaveAfterCheck(runs.inv[p], env, localFile, s3Object, w)} :
               /\ runs' = [runs EXCEPT
                              !.inv[p] = out.run,
                              !.writes = IF out.run.saved = "True"
                                         THEN Append(@, p) ELSE @]
               /\ localFile' = out.local
               /\ s3Object' = out.s3
    /\ UNCHANGED <<env, Idle>>

RaceNext == \E p \in Invocations : RaceFetch(p) \/ RaceCheck(p) \/ RaceSave(p)

RaceSpec == RaceInit /\ [][RaceNext]_vars

(***************************************************************************)
(* Properties of the last invocation, and of the store across invocations. *)
(***************************************************************************)
Invoked == event # NoEvent

\* the last invocation was a request for path p
Routed(p) == HasPath(event) /\ event.requestContext.http.path = p

Routes == {"/get_csv", "/summarize", "/query_kpi_from_csv"}

\* the three operations handler called, in order
OperationsRun ==
    SelectSeq(calls, LAMBDA c : c.fn \in {"get_csv_main", "summarize_main",
                                         "query_kpi_from_csv_main"})

RanOnly(op) == OperationsRun = <<Call(op, "")>>

NotFound ==
    (HasPath(event) /\ event.requestContext.http.path \notin Routes)
        => /\ calls = <<>>
           /\ response = Response(404, [message |-> "Not Found"])

FetchRoute ==
    Routed("/get_csv")
        => /\ RanOnly("get_csv_main")
           /\ response = Response(200, [message |-> "CSV file saved."])

SummarizeRoute ==
    Routed("/summarize")
        => /\ RanOnly("summarize_main")
           /\ response = Response(200, [message |-> "Summarized"])

AnswersResult ==
    /\ response.statusCode = 200
    /\ DOMAIN response.body.json = {"Result"}

\* C1 as stated: each route runs only its own operation and answers 200
\* (the fetch with "CSV file saved.", the summary with "Summarized", the query
\* with a Result body); every other path runs nothing and answers 404
\* "Not Found".
DispatchAnswers200 ==
    /\ FetchRoute
    /\ SummarizeRoute
    /\ Routed("/query_kpi_from_csv")
           => RanOnly("query_kpi_from_csv_main") /\ AnswersResult
    /\ NotFound

\* C1, amended: as above, except that the query route answers 200 with a
\* Result body when the query returns, and 500 when it raises.
DispatchByPath ==
    /\ FetchRoute
    /\ SummarizeRoute
    /\ Routed("/query_kpi_from_csv")
           => /\ RanOnly("query_kpi_from_csv_main")
              /\ logged = "" => AnswersResult
              /\ logged # "" => response.statusCode = 500
    /\ NotFound

\* a query that was answered with rows of the stored dataset
DispatchedQuery ==
    /\ Routed("/query_kpi_from_csv")
    /\ AnswersResult
    /\ response.body.json.Result # <<>>

\* C2 as stated: whatever the event and whatever happens inside handler,
\* handler raises nothing and returns a response with the CORS headers and a
\* body holding 'message' (or 'Result' on the query route).
AlwaysResponds ==
    Invoked
        => /\ raised = ""
           /\ "Access-Control-Allow-Origin" \in DOMAIN response.headers
           /\ response.headers["Access-Control-Allow-Origin"] = "*"
           /\ "Access-Control-Allow-Methods" \in DOMAIN response.headers
           /\ response.headers["Access-Control-Allow-Methods"] = "OPTIONS,POST,GET"
           /\ \/ "message" \in DOMAIN response.body.json
              \/ Routed("/query_kpi_from_csv") /\ "Result" \in DOMAIN response.body.json

\* the request is a query that cannot be answered: no body, a body that is
\* not JSON or lacks a field, no readable stored dataset, or a statistic the
\* dataset has no column for
QueryMustRaise ==
    /\ Routed("/query_kpi_from_csv")
    /\ \/ "body" \notin DOMAIN event
       \/ ~event.body.decodable
       \/ ~({"StartYear", "EndYear", "TeamNameList", "KPIName"}
                \subseteq DOMAIN event.body.json)
       \/ ~s3Object.exists
       \/ ~io.readable
       \/ event.body.json.KPIName \notin Range(s3Object.header)

\* handler caught an exception of the operation it dispatched to
OperationRaised == calls # <<>> /\ logged # ""

\* C3: when the dispatched operation raises, handler returns status 500 with
\* the body {"message": "Internal Server Error"} and the CORS headers, and
\* no field of the body holds the text of the error.
GenericServerError ==
    (OperationRaised \/ QueryMustRaise)
        => /\ raised = ""
           /\ logged # ""
           /\ response = Response(500, [message |-> "Internal Server Error"])
           /\ \A k \in DOMAIN response.body.json : response.body.json[k] # logged

\* a query for a statistic the stored dataset has no column for
UnknownStatisticQuery ==
    /\ Routed("/query_kpi_from_csv")
    /\ s3Object.exists
    /\ io.readable
    /\ logged = "KeyError: not in index"
    /\ response.statusCode = 500

\* the rows a query q selects from rows, in the order of rows, each cut to
\* year, teamName and the statistic asked for
RECURSIVE Selected(_, _)
Selected(rows, q) ==
    IF rows = <<>> THEN <<>>
    ELSE (IF /\ q.StartYear <= Head(rows).year
             /\ Head(rows).year <= q.EndYear
             /\ \/ q.TeamNameList = <<>>
                \/ \E j \in 1..Len(q.TeamNameList) :
                       q.TeamNameList[j] = Head(rows).teamName
          THEN <<[c \in {"year", "teamName", q.KPIName} |-> Head(rows)[c]]>>
          ELSE <<>>)
         \o Selected(Tail(rows), q)

\* a complete query for a tracked statistic, over a readable stored dataset
AnswerableQuery ==
    /\ Routed("/query_kpi_from_csv")
    /\ "body" \in DOMAIN event
    /\ event.body.decodable
    /\ DOMAIN event.body.json = {"StartYear", "EndYear", "TeamNameList", "KPIName"}
    /\ event.body.json.KPIName \in Range(STATS_COLUMNS)
    /\ s3Object.exists
    /\ io.readable

\* C4: a query for a tracked statistic returns exactly the stored rows with
\* StartYear <= year <= EndYear and, for a non-empty TeamNameList, teamName
\* in the list, in stored order, each row holding exactly year, teamName and
\* the statistic.
QueryReturnsSelection ==
    AnswerableQuery
        => /\ logged = ""
           /\ response.statusCode = 200
           /\ response.body.json =
                  [Result |-> Selected(read_csv(s3Object).rows, event.body.json)]

\* a query by team over a dataset stored out of year order, answered with
\* two rows in that order and without a third, stored row
TeamQueryInStoredOrder ==
    /\ AnswerableQuery
    /\ event.body.json.TeamNameList # <<>>
    /\ AnswersResult
    /\ Len(response.body.json.Result) = 2
    /\ response.body.json.Result[1].year > response.body.json.Result[2].year

\* C5 as stated: save_to_csv is called only after judge_incremental returned
\* True, and a run that repeats the previous run with identical upstream data
\* calls no save and leaves the stored dataset as it was, in both environments.
FetchIsIdempotent ==
    /\ saved # "not_called" => judged = "True"
    /\ (wasRerun /\ io.readable)
           => /\ saved = "not_called"
              /\ Stored = before

\* the records of a stored file
RecordsOf(file) == read_csv(file).rows

\* C6 as stated: every record that was in the stored dataset when a fetch run
\* began is in it afterwards, with the same values.
StoreIsAppendOnly ==
    \A i \in 1..Len(RecordsOf(before)) :
        \E j \in 1..Len(RecordsOf(Stored)) :
            RecordsOf(Stored)[j] = RecordsOf(before)[i]

DedupKey(row) == ToString(row.year) \o "_" \o row.teamName

\* C7 as stated: judge_incremental returns False exactly when the stored
\* dataset exists, can be read and holds the key of every incoming record.
MergeCheckIff ==
    judged # "not_called"
        => (judged = "False"
               <=> /\ before.exists
                   /\ io.readable
                   /\ \A i \in 1..Len(all_data) :
                          \E j \in 1..Len(RecordsOf(before)) :
                              DedupKey(RecordsOf(before)[j]) = DedupKey(all_data[i]))

\* every season of the list was fetched and none yielded a record
NoSeasonHasRecords ==
    /\ Routed("/get_csv")
    /\ Len(season_data) = NumSeasons
    /\ \A i \in 1..NumSeasons :
           \/ season_data[i].kind = "None"
           \/ season_data[i].kind = "list" /\ season_data[i].items = <<>>

\* C8: when no season yields a record, the run calls neither
\* judge_incremental nor save_to_csv and leaves the stored dataset unchanged.
AbortsWithoutRecords ==
    NoSeasonHasRecords
        => /\ judged = "not_called"
           /\ saved = "not_called"
           /\ \A i \in 1..Len(calls) :
                  calls[i].fn \notin {"judge_incremental", "save_to_csv"}
           /\ Stored = before

\* a run over a non-empty store in which one season returned None and
\* another the empty list
EmptyRunOverStore ==
    /\ NoSeasonHasRecords
    /\ before.exists
    /\ \E i \in 1..NumSeasons : season_data[i].kind = "None"
    /\ \E i \in 1..NumSeasons : season_data[i].kind = "list"

\* C9: a season whose request fails in transport returns None, not a list;
\* the run raises nothing, requests every season of the list in order, and
\* accumulates the records of exactly the seasons that returned a list.
SkipsFailedSeasons ==
    Routed("/get_csv")
        => /\ raised = ""
           /\ logged = ""
           /\ Len(season_data) = NumSeasons
           /\ SubSeq(calls, 2, NumSeasons + 1) =
                  [i \in 1..NumSeasons |->
                      Call("get_league_standings", ToString(FirstSeason + i - 1))]
           /\ \A i \in 1..NumSeasons :
                  upstream[i].raises = "RequestException"
                      => season_data[i] = Ret("None", <<>>, "", FALSE)
           /\ all_data = Concat([i \in 1..NumSeasons |->
                                    IF season_data[i].kind = "list"
                                    THEN season_data[i].items
                                    ELSE <<>>])
           /\ \A i \in 1..NumSeasons :
                  (season_data[i].kind = "list" /\ season_data[i].items # <<>>)
                      => \E k \in 1..Len(all_data) :
                             all_data[k].year = FirstSeason + i - 1

\* the first season failed in transport, the last was fetched and stored
FailedSeasonThenStored ==
    /\ Routed("/get_csv")
    /\ upstream[1].raises = "RequestException"
    /\ season_data[NumSeasons].kind = "list"
    /\ all_data # <<>>
    /\ saved = "True"

\* C10: for a response with a status other than 200, get_league_standings
\* returns the empty list, not None, and does not call response.json().
EmptyListOnOtherStatus ==
    \A i \in 1..Len(season_data) :
        (upstream[i].raises = "" /\ upstream[i].status_code # 200)
            => /\ season_data[i].kind = "list"
               /\ season_data[i].items = <<>>
               /\ ~season_data[i].json_called

\* a 404 whose body is not JSON
UndecodableNotFound ==
    /\ Len(season_data) = 1
    /\ upstream[1].raises = ""
    /\ upstream[1].status_code = 404
    /\ ~upstream[1].decodable
    /\ season_data[1].kind = "list"

\* the response to season request i is a 200 whose body decodes
Decoded200(i) ==
    /\ upstream[i].raises = ""
    /\ upstream[i].status_code = 200
    /\ upstream[i].decodable

\* the decoded body has a standings list
HasStandings(i) == "standings" \in DOMAIN upstream[i].data

\* the standings list holds a block of type TOTAL
HasTotal(i) ==
    \E k \in 1..Len(upstream[i].data.standings) :
        /\ "type" \in DOMAIN upstream[i].data.standings[k]
        /\ upstream[i].data.standings[k].type = "TOTAL"

\* every block of the standings list has a type
AllTyped(i) ==
    \A k \in 1..Len(upstream[i].data.standings) :
        "type" \in DOMAIN upstream[i].data.standings[k]

EmptyList(i) == season_data[i].kind = "list" /\ season_data[i].items = <<>>

\* C11 as stated: for a decoded 200 body without a standings block of type
\* TOTAL (only other types, an empty list, or no standings list at all)
\* get_league_standings returns the empty list, not None.
EmptyListWithoutTotal ==
    \A i \in 1..Len(season_data) :
        (Decoded200(i) /\ (HasStandings(i) => ~HasTotal(i))) => EmptyList(i)

\* C11, amended: it returns the empty list when the standings list is there
\* and every block of it has a type other than TOTAL, and None when the
\* body has no standings list or a block without a type.
EmptyListWithoutTotalBlock ==
    \A i \in 1..Len(season_data) :
        /\ (Decoded200(i) /\ HasStandings(i) /\ AllTyped(i) /\ ~HasTotal(i))
               => EmptyList(i)
        /\ (Decoded200(i) /\ (~HasStandings(i) \/ (~AllTyped(i) /\ ~HasTotal(i))))
               => season_data[i].kind = "None"

\* a season whose standings list holds blocks, none of type TOTAL
OnlyOtherStandings ==
    /\ Len(season_data) = 1
    /\ Decoded200(1)
    /\ HasStandings(1)
    /\ upstream[1].data.standings # <<>>
    /\ AllTyped(1)
    /\ ~HasTotal(1)
    /\ EmptyList(1)

\* the first block of type TOTAL in the standings list of response i
TotalBlock(i) ==
    upstream[i].data.standings[
        CHOOSE k \in 1..Len(upstream[i].data.standings) :
            /\ upstream[i].data.standings[k].type = "TOTAL"
            /\ \A j \in 1..(k - 1) : upstream[i].data.standings[j].type # "TOTAL"]

\* a decoded 200 body with its season fields and a TOTAL block with a table
HasTotalTable(i) ==
    /\ Decoded200(i)
    /\ HasStandings(i)
    /\ AllTyped(i)
    /\ HasTotal(i)
    /\ "table" \in DOMAIN TotalBlock(i)
    /\ "filters" \in DOMAIN upstream[i].data
    /\ "season" \in DOMAIN upstream[i].data.filters
    /\ "season" \in DOMAIN upstream[i].data
    /\ {"startDate", "endDate"} \subseteq DOMAIN upstream[i].data.season

\* the team row has a team name and the five tracked statistics
CompleteRow(row) ==
    /\ "team" \in DOMAIN row
    /\ "name" \in DOMAIN row.team
    /\ {"won", "draw", "lost", "goalsFor", "goalsAgainst"} \subseteq DOMAIN row

\* one record per complete row of table, in table order
RECURSIVE Extracted(_, _)
Extracted(table, data) ==
    IF table = <<>> THEN <<>>
    ELSE (IF CompleteRow(Head(table))
          THEN <<[year         |-> data.filters.season,
                  startDate    |-> data.season.startDate,
                  endDate      |-> data.season.endDate,
                  teamName     |-> Head(table).team.name,
                  won          |-> Head(table).won,
                  draw         |-> Head(table).draw,
                  lost         |-> Head(table).lost,
                  goalsFor     |-> Head(table).goalsFor,
                  goalsAgainst |-> Head(table).goalsAgainst]>>
          ELSE <<>>)
         \o Extracted(Tail(table), data)

\* C12: for a 200 response with a TOTAL table, get_league_standings returns,
\* in table order, exactly one record per row that has a team name and the
\* five statistics, with that row's values and the response's season fields;
\* a row without one of them is skipped and the other rows are returned.
RecordsMatchTable ==
    \A i \in 1..Len(season_data) :
        HasTotalTable(i)
            => /\ season_data[i].kind = "list"
               /\ season_data[i].items = Extracted(TotalBlock(i).table, upstream[i].data)

\* a table whose first row lacks a field and whose second row is returned
BadRowThenGoodRow ==
    /\ Len(season_data) = 1
    /\ HasTotalTable(1)
    /\ Len(TotalBlock(1).table) = 2
    /\ ~CompleteRow(TotalBlock(1).table[1])
    /\ CompleteRow(TotalBlock(1).table[2])
    /\ Len(season_data[1].items) = 1
    /\ season_data[1].items[1].teamName = TotalBlock(1).table[2].team.name

\* C13 as stated: every dataset a fetch run persists has exactly the columns
\* year, startDate, endDate, teamName, won, draw, lost, goalsFor,
\* goalsAgainst, in that order, and one row per fetched team-season, on the
\* first save and on every later one.
PersistedColumns ==
    (Routed("/get_csv") /\ saved = "True")
        => /\ Stored.header = <<"year", "startDate", "endDate", "teamName", "won",
                                "draw", "lost", "goalsFor", "goalsAgainst">>
           /\ Len(Stored.lines) = Len(all_data)

YearsGiven == {cleaning.df.rows[i].year : i \in 1..Len(cleaning.df.rows)}

\* integral, within 1992..this year, and without a gap
YearsInOrder ==
    /\ ~cleaning.df.isNone
    /\ "year" \in Range(cleaning.df.columns)
    /\ YearsGiven # {}
    /\ NaN \notin YearsGiven
    /\ \A y \in YearsGiven : 1992 <= y /\ y <= now_year
    /\ \A a, b \in YearsGiven : \A y \in (a + 1)..(b - 1) : y \in YearsGiven

\* C15: validate_years returns valid = true exactly when the year column is
\* integral, its minimum is >= 1992, its maximum is <= the current year and
\* its distinct values are the whole range minimum..maximum; otherwise it
\* returns valid = false with a message.
ValidIffYearsInOrder ==
    cleaning.fn = "validate_years"
        => /\ cleaning.verdict.valid <=> YearsInOrder
           /\ cleaning.verdict.message # ""

\* the last and the current year, accepted
ValidAtUpperLimit ==
    /\ cleaning.fn = "validate_years"
    /\ YearsGiven = {now_year - 1, now_year}
    /\ cleaning.verdict.valid

\* the frame the last call was given has every tracked statistic column
HasStatistics == Range(STATS_COLUMNS) \subseteq Range(cleaning.df.columns)

\* clean_data was called on a frame that passes validate_years
CleanedValid ==
    /\ cleaning.fn = "clean_data"
    /\ ~cleaning.df.isNone
    /\ cleaning.verdict.valid
    /\ HasStatistics

\* the values of column c of the frame given that are not missing
PresentIn(c) == {i \in 1..Len(cleaning.df.rows) : cleaning.df.rows[i][c] # NaN}

\* the k-th smallest of the values of column c that are not missing
KthSmallest(c, k) ==
    CHOOSE x \in {cleaning.df.rows[i][c] : i \in PresentIn(c)} :
        /\ Cardinality({i \in PresentIn(c) : cleaning.df.rows[i][c] < x}) < k
        /\ k <= Cardinality({i \in PresentIn(c) : cleaning.df.rows[i][c] <= x})

\* twice the median of the values of column c that are not missing
TwiceMedian(c) ==
    KthSmallest(c, (Cardinality(PresentIn(c)) + 1) \div 2)
    + KthSmallest(c, (Cardinality(PresentIn(c)) \div 2) + 1)

\* twice the value of cell (i, c) of the frame returned
TwiceCleaned(i, c) ==
    IF c \in cleaning.cleaned.halves
    THEN cleaning.cleaned.rows[i][c]
    ELSE 2 * cleaning.cleaned.rows[i][c]

\* C16: on a frame that passes validate_years, clean_data fills each missing
\* value of a statistic column with the median of that column's values,
\* keeps every other value of every column, returns a frame with the same
\* values when no statistic is missing, and leaves the caller's frame as it
\* was.
MedianImputation ==
    CleanedValid
        => /\ ~cleaning.cleaned.isNone
           /\ cleaning.cleaned.columns = cleaning.df.columns
           /\ Len(cleaning.cleaned.rows) = Len(cleaning.df.rows)
           /\ \A i \in 1..Len(cleaning.df.rows) :
                  /\ \A c \in Range(STATS_COLUMNS) :
                         IF cleaning.df.rows[i][c] # NaN
                         THEN TwiceCleaned(i, c) = 2 * cleaning.df.rows[i][c]
                         ELSE PresentIn(c) # {} => TwiceCleaned(i, c) = TwiceMedian(c)
                  /\ \A c \in Range(cleaning.df.columns) \ Range(STATS_COLUMNS) :
                         cleaning.cleaned.rows[i][c] = cleaning.df.rows[i][c]
           /\ \A c \in Range(STATS_COLUMNS) :
                  PresentIn(c) = 1..Len(cleaning.df.rows)
                      => /\ c \notin cleaning.cleaned.halves
                         /\ \A i \in 1..Len(cleaning.df.rows) :
                                cleaning.cleaned.rows[i][c] = cleaning.df.rows[i][c]
           /\ (\A c \in Range(STATS_COLUMNS) : PresentIn(c) = 1..Len(cleaning.df.rows))
                  => cleaning.cleaned = cleaning.df
           /\ cleaning.after = cleaning.df

\* a missing value filled with the median 1.5 of the values 1 and 2
FilledWithHalfMedian ==
    /\ CleanedValid
    /\ \E i \in 1..Len(cleaning.df.rows) :
           /\ cleaning.df.rows[i]["won"] = NaN
           /\ {cleaning.df.rows[j]["won"] : j \in PresentIn("won")} = {1, 2}
           /\ Cardinality(PresentIn("won")) = 2
           /\ TwiceCleaned(i, "won") = 3

\* C17 as stated: whenever clean_data returns a frame, no tracked statistic
\* of any record of that frame is missing, also when a statistic column of
\* the frame given has no value at all.
CleanedIsPopulated ==
    (cleaning.fn = "clean_data" /\ ~cleaning.cleaned.isNone)
        => \A i \in 1..Len(cleaning.cleaned.rows) :
               \A c \in Range(STATS_COLUMNS) : cleaning.cleaned.rows[i][c] # NaN

\* the functions that render or persist a chart
PlotFunctions ==
    {"draw_plots", "create_plot_directory", "plt.figure", "plt.savefig",
     "save_plot_to_s3", "plt.close"}

\* C18: when validate_years rejects the frame, clean_data returns None and
\* has imputed nothing, and the summarize run that called it renders and
\* persists no chart.
InvalidYearsStopCleaning ==
    (cleaning.fn = "clean_data" /\ ~cleaning.df.isNone /\ ~cleaning.verdict.valid)
        => /\ cleaning.cleaned.isNone
           /\ cleaning.after = cleaning.df
           /\ charts = <<>>
           /\ \A i \in 1..Len(calls) : calls[i].fn \notin PlotFunctions

\* a summarize run over a stored dataset with a gap in its years and a
\* missing statistic, nothing standing in the way of rendering
GapDatasetSummarized ==
    /\ Routed("/summarize")
    /\ io = Calm
    /\ cleaning.fn = "clean_data"
    /\ ~cleaning.df.isNone
    /\ ~cleaning.verdict.valid
    /\ \E i \in 1..Len(cleaning.df.rows) : cleaning.df.rows[i]["draw"] = NaN

\* what read_csv_data was given: nothing at the location, content that
\* cannot be decoded or parsed, or content without a record
NothingStored == ~s3Object.exists
Undecodable == s3Object.exists /\ ~io.readable
EmptyContent == s3Object.exists /\ io.readable /\ s3Object.lines = <<>>

\* C19 as stated: read_csv_data returns None when nothing is stored at the
\* location, and lets the failure through to its caller on a decode error,
\* malformed content or empty content.
LoadFailsLoudly ==
    loaded.fn = "read_csv_data"
        => /\ NothingStored => (loaded.ret.isNone /\ loaded.exc = "")
           /\ (Undecodable \/ EmptyContent) => loaded.exc # ""

\* C19, amended: read_csv_data returns None when nothing is stored at the
\* location and also on a decode error, malformed content or empty content;
\* it lets no failure through, and returns the parsed records otherwise.
LoadReturnsNone ==
    loaded.fn = "read_csv_data"
        => /\ loaded.exc = ""
           /\ loaded.ret.isNone <=> (NothingStored \/ Undecodable \/ EmptyContent)
           /\ ~loaded.ret.isNone => loaded.ret = read_csv(s3Object)
           /\ Routed("/summarize") => (raised = "" /\ logged = "")

\* a summarize run over content that cannot be parsed
UndecodableLoaded ==
    /\ Routed("/summarize")
    /\ loaded.fn = "read_csv_data"
    /\ Undecodable
    /\ loaded.ret.isNone
    /\ response.statusCode = 200

\* the arguments of the calls of fn the last call of draw_plots made
ArgsOf(fn) ==
    [i \in 1..Len(SelectSeq(calls, LAMBDA c : c.fn = fn)) |->
        SelectSeq(calls, LAMBDA c : c.fn = fn)[i].arg]

\* the calls the last call of draw_plots made for the statistic stat
CallsFor(stat) ==
    [i \in 1..Len(SelectSeq(calls, LAMBDA c : c.arg = stat)) |->
        SelectSeq(calls, LAMBDA c : c.arg = stat)[i].fn]

\* the chart files of the statistics that were rendered and persisted
ChartsExpected ==
    [i \in 1..Len(SelectSeq(STATS_COLUMNS, LAMBDA st : io.plot[st] = "ok")) |->
        SelectSeq(STATS_COLUMNS, LAMBDA st : io.plot[st] = "ok")[i]
            \o "_by_team_and_year.png"]

\* every statistic attempted once, in list order, and its figure closed
\* once, after everything else done for it
EveryStatisticAttempted ==
    /\ ArgsOf("plt.figure") = STATS_COLUMNS
    /\ ArgsOf("plt.close") = STATS_COLUMNS
    /\ \A k \in 1..Len(STATS_COLUMNS) :
           /\ Head(CallsFor(STATS_COLUMNS[k])) = "plt.figure"
           /\ CallsFor(STATS_COLUMNS[k])[Len(CallsFor(STATS_COLUMNS[k]))] = "plt.close"
    /\ charts = ChartsExpected

NothingPlotted ==
    /\ charts = <<>>
    /\ ArgsOf("plt.figure") = <<>>
    /\ ArgsOf("plt.savefig") = <<>>
    /\ ArgsOf("save_plot_to_s3") = <<>>

\* C20 as stated: on a frame draw_plots attempts every statistic once, in
\* list order, whatever fails for another statistic, persists one chart per
\* statistic that succeeds and closes each figure once; on None it persists
\* nothing.
DrawsEveryStatistic ==
    plotting.fn = "draw_plots"
        => IF plotting.df.isNone THEN NothingPlotted ELSE EveryStatisticAttempted

\* C20, amended: as above, except that locally, when the chart directory
\* cannot be created, draw_plots attempts no statistic and persists nothing.
DrawsEveryStatisticInDirectory ==
    plotting.fn = "draw_plots"
        => IF plotting.df.isNone \/ (env # "aws" /\ ~io.dirOk)
           THEN NothingPlotted
           ELSE EveryStatisticAttempted

\* the second statistic failed, the last one was still persisted
FailureThenChart ==
    /\ plotting.fn = "draw_plots"
    /\ ~plotting.df.isNone
    /\ io.plot["draw"] = "error"
    /\ io.plot["goalsAgainst"] = "ok"
    /\ Len(charts) >= 2
    /\ charts[Len(charts)] = "goalsAgainst_by_team_and_year.png"

\* both invocations called judge_incremental over the same stored file, both
\* got True and both are through
BothCheckedSameState ==
    /\ \A p \in Invocations :
           runs.inv[p].pc = "done" /\ runs.inv[p].judged = "True"
    /\ \A p, q \in Invocations : runs.inv[p].saw = runs.inv[q].saw

\* the record row of an invocation's data is not in the records rows
Missing(row, rows) ==
    \A j \in 1..Len(rows) : DedupKey(rows[j]) # DedupKey(row)

\* C21: two invocations may call judge_incremental over the same stored
\* file; both then got True and both call save_to_csv, whatever the other
\* stored in between, and the file holds what the later save wrote: the
\* records of the later invocation and no other.
LaterSaveOverwrites ==
    BothCheckedSameState
        => /\ \A p \in Invocations :
                  /\ runs.inv[p].saved # "not_called"
                  /\ runs.inv[p].saved = "True" <=> p \in Range(runs.writes)
           /\ runs.writes # <<>>
                  => /\ Len(RecordsOf(Stored))
                           = Len(runs.inv[runs.writes[Len(runs.writes)]].all_data)
                     /\ \A i \in 1..Len(RecordsOf(Stored)) :
                            ~Missing(RecordsOf(Stored)[i],
                                     runs.inv[runs.writes[Len(runs.writes)]].all_data)

\* both read the same file locally, both saved, and a record the earlier
\* one stored, which the later one had not fetched, is gone
RaceLosesRecord ==
    /\ env = "local"
    /\ BothCheckedSameState
    /\ Len(runs.writes) = 2
    /\ runs.writes[1] # runs.writes[2]
    /\ \E i \in 1..Len(runs.inv[runs.writes[1]].all_data) :
           /\ Missing(runs.inv[runs.writes[1]].all_data[i],
                      runs.inv[runs.writes[2]].all_data)
           /\ Missing(runs.inv[runs.writes[1]].all_data[i], RecordsOf(Stored))

\* C22: a request for /get_csv or /summarize is answered 200 with the
\* route's success message and nothing escapes handler, whatever the
\* pipeline did: no season fetched, judge_incremental False, save_to_csv
\* False, dataset not loaded, years invalid.  Only a request for
\* /query_kpi_from_csv can be answered 500.
PipelinesAlwaysAnswer200 ==
    /\ Routed("/get_csv")
           => /\ response = Response(200, [message |-> "CSV file saved."])
              /\ raised = ""
    /\ Routed("/summarize")
           => /\ response = Response(200, [message |-> "Summarized"])
              /\ raised = ""
    /\ response.statusCode = 500 => Routed("/query_kpi_from_csv")

\* a fetch whose save_to_csv returned False, answered as a success
FailedSaveAnswered200 ==
    /\ Routed("/get_csv")
    /\ judged = "True"
    /\ saved = "False"
    /\ Stored = before
    /\ response.statusCode = 200

====
